---- MODULE Spec2Model ----
(***************************************************************************)
(* Model of the ELI5 Slack bot: the webhook receiver slack_events and its  *)
(* handlers (src/api/index.py) and the modal/metadata builders             *)
(* (src/slack_app.py).                                                     *)
(*                                                                         *)
(* Strings are run-length encoded: a string is a sequence of runs          *)
(* [ch |-> c, n |-> k] (k copies of character c), so that the 800- and     *)
(* 2900-character thresholds of the code are reached with short values.    *)
(***************************************************************************)
EXTENDS Integers, Sequences, FiniteSets, TLC

VARIABLES
    delivered,  \* number of inbound events whose first attempt was delivered
    acked,      \* the platform received the HTTP response of the current event
    first,      \* what became of the first attempt of the current event
    retried,    \* the invocation of slack_events for a retried delivery, if one runs
    req,        \* the invocation of slack_events for the current event
    worker,     \* the worker thread of that invocation
    modal,      \* the requesting user's modal, as the platform holds it
    fu,         \* the invocations of /api/followup, in order of arrival
    marg,       \* arguments of the builder call under test (SpecMeta)
    mret,       \* its return value
    mpc,        \* "call" before the builder ran, then the builder that ran
    env,        \* the environment variables of the deployment
    sigs        \* what the signatures of the requests that arrive can be

metaVars == <<marg, mret, mpc>>

protoVars == <<delivered, acked, first, retried, req, worker, modal, fu>>

vars == <<delivered, acked, first, retried, req, worker, modal, fu, marg, mret, mpc, env, sigs>>

-----------------------------------------------------------------------------
(* Run-length encoded strings.                                             *)

\* Characters: "a" an ASCII letter, "s" a space, "n" a newline, "q" a double
\* quote, "u" a non-ASCII character of the basic plane (e.g. an accented letter),
\* "h" the first character of a section header of an explanation ("*TLDR*", ...).
Chars == {"a", "s", "n", "q", "u", "h"}

Run(c, k) == [ch |-> c, n |-> k]

Rep(c, k) == IF k = 0 THEN <<>> ELSE <<Run(c, k)>>

RECURSIVE StrLen(_)
StrLen(s) == IF s = <<>> THEN 0 ELSE Head(s).n + StrLen(Tail(s))

\* s[:k]
RECURSIVE Slice(_, _)
Slice(s, k) ==
    IF s = <<>> \/ k <= 0 THEN <<>>
    ELSE IF Head(s).n <= k THEN <<Head(s)>> \o Slice(Tail(s), k - Head(s).n)
    ELSE <<Run(Head(s).ch, k)>>

\* s + t
Concat(s, t) ==
    IF s = <<>> THEN t
    ELSE IF t = <<>> THEN s
    ELSE IF s[Len(s)].ch = t[1].ch
         THEN SubSeq(s, 1, Len(s) - 1) \o <<Run(t[1].ch, s[Len(s)].n + t[1].n)>> \o Tail(t)
         ELSE s \o t

IsSpace(c) == c \in {"s", "n"}

RECURSIVE LStrip(_)
LStrip(s) == IF s # <<>> /\ IsSpace(Head(s).ch) THEN LStrip(Tail(s)) ELSE s

RECURSIVE RStrip(_)
RStrip(s) ==
    IF s # <<>> /\ IsSpace(s[Len(s)].ch) THEN RStrip(SubSeq(s, 1, Len(s) - 1)) ELSE s

\* s[k:]
RECURSIVE Drop(_, _)
Drop(s, k) ==
    IF s = <<>> \/ k <= 0 THEN s
    ELSE IF Head(s).n <= k THEN Drop(Tail(s), k - Head(s).n)
    ELSE <<Run(Head(s).ch, Head(s).n - k)>> \o Tail(s)

Min(a, b) == IF a < b THEN a ELSE b

\* s.rfind("\n", 0, k) - off, for s the part of the string from offset off on
RECURSIVE RFindNl(_, _, _)
RFindNl(s, k, off) ==
    IF s = <<>> \/ k <= 0 THEN -1
    ELSE LET later == RFindNl(Tail(s), k - Head(s).n, off + Head(s).n)
         IN  IF later # -1 THEN later
             ELSE IF Head(s).ch = "n" THEN off + Min(Head(s).n, k) - 1
             ELSE -1

\* str.strip()
Strip(s) == RStrip(LStrip(s))

-----------------------------------------------------------------------------
(* json.dumps / json.loads of the metadata (ensure_ascii, default          *)
(* separators).  An encoded string is a sequence of runs of escape tokens. *)

Escape(c) ==
    CASE c = "a" -> "a"
      [] c = "h" -> "*"
      [] c = "s" -> " "
      [] c = "n" -> "\\n"
      [] c = "q" -> "\\\""
      [] c = "u" -> "\\u00e9"

Unescape(t) ==
    CASE t = "a" -> "a"
      [] t = "*" -> "h"
      [] t = " " -> "s"
      [] t = "\\n" -> "n"
      [] t = "\\\"" -> "q"
      [] t = "\\u00e9" -> "u"

\* number of characters of an escape token
TokLen(t) ==
    CASE t = "a" -> 1
      [] t = "*" -> 1
      [] t = " " -> 1
      [] t = "\\n" -> 2
      [] t = "\\\"" -> 2
      [] t = "\\u00e9" -> 6

DumpsStr(s) == [i \in DOMAIN s |-> [tok |-> Escape(s[i].ch), n |-> s[i].n]]

LoadsStr(e) == [i \in DOMAIN e |-> Run(Unescape(e[i].tok), e[i].n)]

RECURSIVE EncBody(_)
EncBody(e) == IF e = <<>> THEN 0 ELSE Head(e).n * TokLen(Head(e).tok) + EncBody(Tail(e))

\* length of a JSON string literal, quotes included
EncLen(e) == 2 + EncBody(e)

RoleLen(r) == IF r = "user" THEN 4 ELSE 9

\* {"role": "<r>", "content": <content>}
EntryLen(x) == 25 + RoleLen(x.role) + EncLen(x.content)

RECURSIVE ConvLen(_)
ConvLen(c) ==
    IF c = <<>> THEN 0
    ELSE EntryLen(Head(c)) + (IF Len(c) > 1 THEN 2 ELSE 0) + ConvLen(Tail(c))

\* json.dumps({"original_text": ..., "conversation": [...]}): the JSON text,
\* kept as its two members
Dumps(data) ==
    [original_text |-> DumpsStr(data.original_text),
     conversation |-> [i \in DOMAIN data.conversation |->
                          [role |-> data.conversation[i].role,
                           content |-> DumpsStr(data.conversation[i].content)]]]

\* len() of that JSON text
JsonLen(j) == 18 + EncLen(j.original_text) + 18 + 2 + ConvLen(j.conversation) + 1

Loads(j) ==
    [original_text |-> LoadsStr(j.original_text),
     conversation |-> [i \in DOMAIN j.conversation |->
                          [role |-> j.conversation[i].role,
                           content |-> LoadsStr(j.conversation[i].content)]]]

-----------------------------------------------------------------------------
(* Builders of src/slack_app.py.                                           *)

MetaCap == 2900
OriginalTextMax == 800
SlackMetaLimit == 3000
PreviewMax == 500
BlockCap == 2900
MinCut == 100

\* The pieces of re.split(r"(?=\*(?:TLDR|...)\*)", explanation): a new piece
\* starts before every header.  acc is the piece being collected.
RECURSIVE SplitSections(_, _)
SplitSections(s, acc) ==
    IF s = <<>> THEN <<acc>>
    ELSE IF Head(s).ch = "h"
         THEN <<acc>> \o [i \in 1..(Head(s).n - 1) |-> Rep("h", 1)]
                  \o SplitSections(Tail(s), Rep("h", 1))
         ELSE SplitSections(Tail(s), Concat(acc, <<Head(s)>>))

\* the while loop of split_explanation_blocks on one stripped section
RECURSIVE ChunkSection(_)
ChunkSection(section) ==
    IF StrLen(section) > BlockCap
    THEN LET found == RFindNl(section, BlockCap, 0)
             cut == IF found < MinCut THEN BlockCap ELSE found
         IN  <<Slice(section, cut)>> \o ChunkSection(Strip(Drop(section, cut)))
    ELSE IF section # <<>> THEN <<section>> ELSE <<>>

RECURSIVE ChunkAll(_)
ChunkAll(sections) ==
    IF sections = <<>> THEN <<>>
    ELSE ChunkSection(Strip(Head(sections))) \o ChunkAll(Tail(sections))

\* split_explanation_blocks: the texts of the section blocks
split_explanation_blocks(explanation) == ChunkAll(SplitSections(explanation, <<>>))

\* a truncation that drops the newest entry first
RECURSIVE TruncateNewestFirst(_)
TruncateNewestFirst(data) ==
    IF JsonLen(Dumps(data)) > MetaCap /\ data.conversation # <<>>
    THEN TruncateNewestFirst([data EXCEPT
             !.conversation = SubSeq(@, 1, Len(@) - 1)])
    ELSE data

\* the truncation loop of build_modal_metadata: pop(0) while the JSON text
\* is longer than the cap and the conversation is not empty
RECURSIVE TruncateConversation(_)
TruncateConversation(data) ==
    IF JsonLen(Dumps(data)) > MetaCap /\ data.conversation # <<>>
    THEN TruncateConversation([data EXCEPT !.conversation = Tail(@)])
    ELSE data

\* build_modal_metadata: the private_metadata JSON text
build_modal_metadata(original_text, conversation) ==
    Dumps(TruncateConversation(
        [original_text |-> Slice(original_text, OriginalTextMax),
         conversation |-> conversation]))

Section(t) == [type |-> "section", text |-> t]
Divider == [type |-> "divider", text |-> <<>>]
InputBlock == [type |-> "input", text |-> <<>>]

\* f"{text[:k]}{'...' if len(text) > k else ''}"
Preview(text, k) ==
    Concat(Slice(text, k), IF StrLen(text) > k THEN Rep("a", 3) ELSE <<>>)

\* "*Original message:*\n>"
OriginalLabel == <<Run("a", 19), Run("n", 1), Run("a", 1)>>

\* "*You asked:* "
YouAsked == <<Run("a", 12), Run("s", 1)>>

RECURSIVE ConversationBlocks(_)
ConversationBlocks(conversation) ==
    IF conversation = <<>> THEN <<>>
    ELSE (IF Head(conversation).role = "user"
          THEN <<Divider, Section(Concat(YouAsked, Head(conversation).content))>>
          ELSE IF Head(conversation).role = "assistant"
          THEN <<Section(Head(conversation).content)>>
          ELSE <<>>)
         \o ConversationBlocks(Tail(conversation))

\* build_explanation_modal_view: the view (callback_id eli5_followup)
build_explanation_modal_view(original_text, explanation, conversation) ==
    [callback_id |-> "eli5_followup",
     private_metadata |-> build_modal_metadata(original_text, conversation),
     blocks |-> <<Section(Concat(OriginalLabel, Preview(original_text, PreviewMax))), Divider>>
                \o [i \in DOMAIN split_explanation_blocks(explanation) |->
                       Section(split_explanation_blocks(explanation)[i])]
                \o ConversationBlocks(conversation)
                \o <<Divider, InputBlock>>]

-----------------------------------------------------------------------------
(* The protocol: inbound requests, the dispatcher slack_events and the     *)
(* data its handlers work on (src/api/index.py).                           *)

MaxEvents == 1

NoValue == [none |-> TRUE]

\* process configuration read from the environment
\* os.environ of a configured deployment; "None" stands for None: a variable
\* that is not set, a key a JSON body lacks or gives as null
Env == [SLACK_SIGNING_SECRET |-> "signing-secret", SLACK_BOT_TOKEN |-> "xoxb-token"]

\* placeholders shown while a follow-up is being answered
THINKING_MESSAGES == { Rep("a", 11), Rep("a", 13) }

\* the fixed fallback answer of /api/followup (64 characters)
FallbackAnswer == Rep("a", 64)

\* what the LLM may return: an explanation of a message, an answer to a question
Explanations == { <<Run("h", 1), Run("a", 40), Run("n", 2), Run("h", 1), Run("a", 60)>> }
Answers == { Rep("a", 1500) }

\* the value of the follow-up input: None, or what the user typed
NoInput == [given |-> FALSE, text |-> <<>>]
Input(t) == [given |-> TRUE, text |-> t]
Typed ==
    { NoInput, Input(<<>>), Input(Rep("s", 2)),
      Input(<<Run("s", 1), Run("a", 5), Run("n", 1)>>) }

\* messages a shortcut is invoked on
NoMessage == [text |-> <<>>, files |-> FALSE, urls |-> FALSE]
Messages ==
    { NoMessage,
      [text |-> <<Run("a", 30), Run("s", 1)>>, files |-> FALSE, urls |-> TRUE],
      [text |-> <<>>, files |-> TRUE, urls |-> FALSE],
      [text |-> Rep("u", 800), files |-> FALSE, urls |-> FALSE] }

\* "\n\n[Content from <url>]:\n<content>" appended for a fetched link
UrlContent == <<Run("n", 2), Run("a", 40), Run("n", 1), Run("a", 100)>>

\* a modal view without callback: the loading view and the one-line notices
Notice(n) == [callback_id |-> "", notice |-> n, private_metadata |-> NoValue, blocks |-> <<>>]

\* the view update_modal_with_explanation and the follow-up handlers show
ExplanationView(original_text, explanation, conversation) ==
    [notice |-> "explanation"] @@
    build_explanation_modal_view(original_text, explanation, conversation)

\* the platform takes a view only if its private_metadata is within its
\* limit of 3000 characters
Accepted(view) ==
    \/ view.private_metadata = NoValue
    \/ JsonLen(view.private_metadata) <= SlackMetaLimit

ClosedModal == [id |-> 0, open |-> FALSE, view |-> Notice("none")]

\* json.loads(private_metadata), {} when it does not parse
LoadMetadata(m) ==
    IF m = NoValue THEN [original_text |-> <<>>, conversation |-> <<>>] ELSE Loads(m)

\* "\n\n".join(parts)
RECURSIVE JoinParts(_)
JoinParts(parts) ==
    IF parts = <<>> THEN <<>>
    ELSE IF Len(parts) = 1 THEN Head(parts)
    ELSE Concat(Concat(Head(parts), Rep("n", 2)), JoinParts(Tail(parts)))

\* the loop of parse_view_submission over the blocks of the view
RECURSIVE ExplanationParts(_, _)
ExplanationParts(blocks, in_explanation) ==
    IF blocks = <<>> THEN <<>>
    ELSE IF Head(blocks).type = "divider" /\ ~in_explanation
         THEN ExplanationParts(Tail(blocks), TRUE)
    ELSE IF in_explanation
         THEN IF Head(blocks).type = "divider" THEN <<>>
              ELSE (IF Head(blocks).text # <<>> THEN <<Head(blocks).text>> ELSE <<>>)
                   \o ExplanationParts(Tail(blocks), TRUE)
    ELSE ExplanationParts(Tail(blocks), FALSE)

\* a parse that takes the value of the input as typed
parse_view_submission_as_typed(payload) ==
    LET view == payload.view
        data == LoadMetadata(view.private_metadata)
        question == IF payload.value.given THEN payload.value.text ELSE <<>>
    IN  IF view.callback_id # "eli5_followup" THEN NoValue
        ELSE IF question = <<>> THEN NoValue
        ELSE [view_id |-> payload.view_id,
              question |-> question,
              original_text |-> data.original_text,
              conversation |-> data.conversation,
              initial_explanation |-> JoinParts(ExplanationParts(view.blocks, FALSE))]

\* parse_view_submission: NoValue for None
parse_view_submission(payload) ==
    LET view == payload.view
        data == LoadMetadata(view.private_metadata)
        question == Strip(IF payload.value.given THEN payload.value.text ELSE <<>>)
    IN  IF view.callback_id # "eli5_followup" THEN NoValue
        ELSE IF question = <<>> THEN NoValue
        ELSE [view_id |-> payload.view_id,
              question |-> question,
              original_text |-> data.original_text,
              conversation |-> data.conversation,
              initial_explanation |-> JoinParts(ExplanationParts(view.blocks, FALSE))]

-----------------------------------------------------------------------------
(* Inbound requests.  retry is the number in X-Slack-Retry-Num, 0 when the *)
(* header is absent; ctype the content type; type the "type" of the JSON   *)
(* body or of the form payload; args what the handlers read.               *)

Request(ctype, type, args) ==
    [retry |-> 0, signature |-> "valid", ctype |-> ctype, type |-> type, args |-> args]

\* X-Slack-Signature and X-Slack-Request-Timestamp of a request: "valid",
\* "missing", "stale" (a timestamp older than five minutes) or "wrong"
Signatures == {"valid", "missing", "stale", "wrong"}

\* verify_slack_signature: the timestamp is recent and the HMAC matches
verify_slack_signature(r) == r.signature = "valid"

\* the requests of a set as they arrive, with the signatures they can have
Arriving(requests) == { [r EXCEPT !.signature = sig] : r \in requests, sig \in sigs }

ShortcutRequests ==
    { Request("form", "shortcut", [callback_id |-> c, channel |-> FALSE, message |-> NoMessage])
        : c \in {"explain_jargon", "explain_jargon_public"} }
    \cup
    { Request("form", "message_action", [callback_id |-> c, channel |-> ch, message |-> m])
        : c \in {"explain_jargon", "explain_jargon_public"}, ch \in BOOLEAN,
          m \in Messages \ {NoMessage} }

BlockActionRequests ==
    { Request("form", "block_actions",
              [action_id |-> a[1], user |-> a[2], view |-> modal.view,
               view_id |-> IF modal.open THEN modal.id ELSE 0])
        : a \in { <<"", TRUE>>, <<"other", TRUE>>, <<"chat_about_this", TRUE>>,
                  <<"chat_about_this", FALSE>> } }

ViewSubmissionRequests ==
    IF modal.open /\ modal.view.callback_id = "eli5_followup"
    THEN { Request("form", "view_submission",
                   [view |-> modal.view, view_id |-> modal.id, value |-> v]) : v \in Typed }
    ELSE {}

ViewClosedRequests ==
    IF modal.open /\ modal.view.callback_id = "eli5_followup"
    THEN { Request("form", "view_closed", [view |-> modal.view, user |-> u]) : u \in BOOLEAN }
    ELSE {}

EventRequests ==
    { Request("json", "event_callback",
              [etype |-> "message", channel_type |-> m[1], bot |-> m[2], text |-> m[3]])
        : m \in { <<"im", FALSE, "">>, <<"im", FALSE, "link">>, <<"im", FALSE, "plain">>,
                  <<"im", TRUE, "plain">>, <<"channel", FALSE, "plain">> } }
    \cup
    { Request("json", "event_callback",
              [etype |-> "reaction_added", reaction |-> r[1], complete |-> r[2]])
        : r \in { <<"speech_balloon", TRUE>>, <<"eli5", TRUE>>, <<"eli5", FALSE>>,
                  <<"thumbsup", TRUE>> } }
    \cup
    { Request("json", "event_callback", [etype |-> "app_home_opened"]) }

OtherRequests ==
    { Request("json", "url_verification", [challenge |-> "c"]),
      Request("json", "other", [x |-> 0]),
      Request("form", "other", [x |-> 0]) }

\* a dispatch that looks at the retry header only after the form payloads
RouteRetryLast(r) ==
    IF r.ctype = "json" /\ r.type = "url_verification" THEN "challenge"
    ELSE IF r.ctype = "form" /\ r.type \in {"shortcut", "message_action"} THEN "shortcut"
    ELSE IF r.ctype = "form" /\ r.type = "block_actions" THEN "block_actions"
    ELSE IF r.ctype = "form" /\ r.type = "view_submission" THEN "view_submission"
    ELSE IF r.ctype = "form" /\ r.type = "view_closed" THEN "view_closed"
    ELSE IF r.retry # 0 THEN "skip_retry"
    ELSE IF r.ctype = "json" /\ r.type = "event_callback"
         THEN IF r.args.etype = "message" /\ r.args.channel_type = "im"
              THEN IF ~r.args.bot THEN "dm" ELSE "dm_ignored"
              ELSE IF r.args.etype = "reaction_added" THEN "reaction"
              ELSE "event_ack"
    ELSE "bolt"

\* the dispatch of slack_events, in the order of its tests
Route(r) ==
    IF r.retry # 0 THEN "skip_retry"
    ELSE IF r.ctype = "json" /\ r.type = "url_verification" THEN "challenge"
    ELSE IF r.ctype = "form" /\ r.type \in {"shortcut", "message_action"} THEN "shortcut"
    ELSE IF r.ctype = "form" /\ r.type = "block_actions" THEN "block_actions"
    ELSE IF r.ctype = "form" /\ r.type = "view_submission" THEN "view_submission"
    ELSE IF r.ctype = "form" /\ r.type = "view_closed" THEN "view_closed"
    ELSE IF r.ctype = "json" /\ r.type = "event_callback"
         THEN IF r.args.etype = "message" /\ r.args.channel_type = "im"
              THEN IF ~r.args.bot THEN "dm" ELSE "dm_ignored"
              ELSE IF r.args.etype = "reaction_added" THEN "reaction"
              ELSE "event_ack"
    ELSE "bolt"

\* a dispatch that hands a DM to two threads
ThreadsTwoForDm(route) ==
    CASE route = "shortcut" -> <<"handle_shortcut_async">>
      [] route = "block_actions" -> <<"handle_block_action">>
      [] route = "dm" -> <<"handle_dm_event", "handle_dm_event">>
      [] route = "reaction" -> <<"handle_reaction_event">>
      [] OTHER -> <<>>

\* the targets of the threads slack_events starts on a route
Threads(route) ==
    CASE route = "shortcut" -> <<"handle_shortcut_async">>
      [] route = "block_actions" -> <<"handle_block_action">>
      [] route = "dm" -> <<"handle_dm_event">>
      [] route = "reaction" -> <<"handle_reaction_event">>
      [] OTHER -> <<>>

\* the handler slack_events calls itself on a route
Called(route) ==
    CASE route = "view_submission" -> "parse_view_submission"
      [] route = "view_closed" -> "handle_view_closed"
      [] route = "bolt" -> "SlackRequestHandler.handle"
      [] OTHER -> "none"

\* a join that does not wait
JoinNoWait(route) == 0

\* seconds slack_events waits in join for its thread
JoinSeconds(route) ==
    CASE route = "shortcut" -> 25
      [] route = "block_actions" -> 10
      [] route = "dm" -> 25
      [] route = "reaction" -> 2
      [] OTHER -> 0

\* the HTTP response slack_events returns on a route
Response(r) ==
    LET route == Route(r) IN
    CASE route \in {"skip_retry", "dm", "dm_ignored", "reaction", "event_ack"} -> "ok"
      [] route = "challenge" -> "challenge"
      [] route \in {"shortcut", "block_actions", "view_closed"} -> "empty"
      [] route = "view_submission" ->
            IF parse_view_submission(r.args) # NoValue THEN "update" ELSE "errors"
      [] route = "bolt" -> "bolt"

\* requests slack_events sends to /api/followup on a route
FollowupPosts(r) ==
    IF Route(r) = "view_submission" /\ parse_view_submission(r.args) # NoValue THEN 1 ELSE 0

-----------------------------------------------------------------------------
(* State of one invocation of slack_events and of its worker thread.       *)

IdleWorker ==
    [h |-> "none", pc |-> "idle", text |-> <<>>, images |-> FALSE,
     view_id |-> 0, expl |-> <<>>, updates |-> <<>>]

NoRetry == [num |-> 0]

IdleReq ==
    [pc |-> "idle", request |-> NoValue, route |-> "", resp |-> "", threads |-> <<>>,
     called |-> "none", posts |-> 0, llm |-> 0, llm_at_return |-> -1,
     failed |-> {}, shown |-> {}, waited |-> 0, timed_out |-> FALSE]

\* the invocation for request r, before it returns
NewReq(r) ==
    [pc |-> "join", request |-> r, route |-> Route(r), resp |-> "",
     threads |-> Threads(Route(r)), called |-> Called(Route(r)),
     posts |-> FollowupPosts(r), llm |-> 0, llm_at_return |-> -1,
     failed |-> {}, shown |-> {}, waited |-> JoinSeconds(Route(r)),
     timed_out |-> FALSE]

\* slack_events returns its HTTP response
Returned(q) ==
    [q EXCEPT !.pc = "done", !.resp = Response(q.request), !.llm_at_return = q.llm]

WorkerOver == worker.pc \in {"idle", "done", "raised", "killed"}

\* the host runs one invocation of slack_events for this user at a time
CanDeliver ==
    /\ retried = NoRetry
    /\ delivered < MaxEvents
    /\ req.pc # "join"
    /\ WorkerOver

Begin ==
    /\ CanDeliver
    /\ delivered' = delivered + 1
    /\ acked' = FALSE
    /\ retried' = NoRetry

\* the entry point of a handler thread
StartThread(target, r) ==
    [IdleWorker EXCEPT !.h = target,
                       !.pc = IF target = "handle_shortcut_async" THEN "extract" ELSE "entry"]

\* a first delivery that slack_events hands to a thread: t.start(), then t.join
SlackEventsThread ==
    \E r \in Arriving(ShortcutRequests \cup BlockActionRequests \cup EventRequests) :
        /\ Threads(Route(r)) # <<>>
        /\ Begin
        /\ req' = NewReq(r)
        /\ worker' = StartThread(Threads(Route(r))[1], r)
        /\ first' = "handling"
        /\ UNCHANGED <<modal, fu, metaVars, env, sigs>>

\* a first delivery slack_events answers without any handler of its own:
\* the challenge, ignored and unhandled events, the slack-bolt fallback
SlackEventsDirect ==
    \E r \in Arriving(EventRequests \cup OtherRequests) :
        /\ Route(r) \in {"challenge", "dm_ignored", "event_ack", "bolt"}
        /\ Begin
        /\ req' = Returned(NewReq(r))
        /\ worker' = IdleWorker
        /\ first' = "finished"
        /\ UNCHANGED <<modal, fu, metaVars, env, sigs>>

\* the body slack_events posts to /api/followup
FollowupBody(parsed) ==
    [secret |-> env.SLACK_SIGNING_SECRET,
     complete |-> TRUE,
     view_id |-> parsed.view_id,
     question |-> parsed.question,
     original_text |-> parsed.original_text,
     conversation |-> parsed.conversation,
     initial_explanation |-> parsed.initial_explanation]

\* a thinking view that leaves the new question out
ThinkingViewNoQuestion(parsed, thinking) ==
    ExplanationView(parsed.original_text, parsed.initial_explanation,
                    parsed.conversation \o
                        << [role |-> "assistant", content |-> thinking] >>)

\* the view slack_events returns at once for a parsed submission
ThinkingView(parsed, thinking) ==
    ExplanationView(parsed.original_text, parsed.initial_explanation,
                    parsed.conversation \o
                        << [role |-> "user", content |-> parsed.question],
                           [role |-> "assistant", content |-> thinking] >>)

\* an invocation of /api/followup that has just received its request
NewFollowup(body, source) ==
    [pc |-> "received", body |-> body, source |-> source, answer |-> <<>>,
     llm |-> 0, failed |-> {}, view |-> NoValue, updated |-> FALSE]

\* a view_submission: parse, build the thinking view, post to /api/followup
\* (sent tells whether conn.request got the request out), return
SlackEventsViewSubmission ==
    \E r \in Arriving(ViewSubmissionRequests), thinking \in THINKING_MESSAGES, sent \in BOOLEAN :
        LET parsed == parse_view_submission(r.args) IN
        /\ Route(r) = "view_submission"
        /\ Begin
        /\ worker' = IdleWorker
        /\ first' = "finished"
        /\ IF parsed # NoValue
           THEN /\ req' = [Returned(NewReq(r)) EXCEPT
                              !.failed = IF sent THEN {} ELSE {"followup_post"}]
                /\ modal' = IF Accepted(ThinkingView(parsed, thinking))
                            THEN [modal EXCEPT !.view = ThinkingView(parsed, thinking)]
                            ELSE modal
                /\ fu' = IF sent
                         THEN Append(fu, NewFollowup(FollowupBody(parsed),
                                                     r.args.view.private_metadata))
                         ELSE fu
           ELSE /\ thinking = CHOOSE t \in THINKING_MESSAGES : TRUE
                /\ sent
                /\ req' = Returned(NewReq(r))
                /\ UNCHANGED <<modal, fu>>
        /\ UNCHANGED <<metaVars, env, sigs>>

\* a view_closed: slack_events calls handle_view_closed itself
SlackEventsViewClosed ==
    \E r \in Arriving(ViewClosedRequests), open_ok, post_ok \in BOOLEAN :
        LET data == LoadMetadata(r.args.view.private_metadata)
            silent == \/ r.args.view.callback_id # "eli5_followup"
                      \/ ~r.args.user
                      \/ r.args.view.private_metadata = NoValue
                      \/ data.conversation = <<>>
        IN
        /\ Route(r) = "view_closed"
        /\ Begin
        /\ worker' = IdleWorker
        /\ first' = "finished"
        /\ silent => open_ok /\ post_ok
        /\ ~open_ok => post_ok
        /\ req' = [Returned(NewReq(r)) EXCEPT
                      !.failed = IF silent THEN {}
                                 ELSE IF ~open_ok THEN {"conversations_open"}
                                 ELSE IF ~post_ok THEN {"chat_postMessage"}
                                 ELSE {},
                      !.shown = IF ~silent /\ open_ok /\ post_ok THEN {"recap"} ELSE {}]
        /\ modal' = [modal EXCEPT !.open = FALSE]
        /\ UNCHANGED <<fu, metaVars, env, sigs>>

\* the platform delivers the current event again, with X-Slack-Retry-Num
\* 1, 2 or 3, as long as it has no response to the first attempt; retried
\* holds what that invocation of slack_events does
SlackEventsRetry ==
    /\ delivered >= 1
    /\ ~acked
    /\ retried = NoRetry
    /\ \E n \in 1..3 :
        LET r == [req.request EXCEPT !.retry = n] IN
        retried' = [num |-> r.retry, ctype |-> r.ctype, type |-> r.type,
                    route |-> Route(r), resp |-> Response(r),
                    threads |-> Threads(Route(r)), called |-> Called(Route(r)),
                    posts |-> FollowupPosts(r)]
    /\ UNCHANGED <<delivered, acked, first, req, worker, modal, fu, metaVars, env, sigs>>

\* the invocation for the retried delivery is over
RetryReturns ==
    /\ retried # NoRetry
    /\ retried' = NoRetry
    /\ UNCHANGED <<delivered, acked, first, req, worker, modal, fu, metaVars, env, sigs>>

\* the response of the first attempt reaches the platform
Ack ==
    /\ retried = NoRetry
    /\ req.pc = "done"
    /\ ~acked
    /\ acked' = TRUE
    /\ UNCHANGED <<delivered, first, retried, req, worker, modal, fu, metaVars, env, sigs>>

\* slack_events returns as soon as the thread is started, without a join
JoinReturnsAtOnce ==
    /\ retried = NoRetry
    /\ req.pc = "join"
    /\ req' = Returned(req)
    /\ UNCHANGED <<delivered, acked, first, retried, worker, modal, fu, metaVars, env, sigs>>

\* t.join returns because the thread ended; slack_events returns
JoinReturns ==
    /\ retried = NoRetry
    /\ req.pc = "join"
    /\ worker.pc \in {"done", "raised"}
    /\ req' = Returned(req)
    /\ UNCHANGED <<delivered, acked, first, retried, worker, modal, fu, metaVars, env, sigs>>

\* t.join(timeout) gives up while the thread is still running; slack_events
\* returns.  "Vercel keeps function alive until response": once the response
\* is out the host may stop the function, and then the thread does not run
\* again, or may leave the thread running
JoinTimesOut ==
    /\ retried = NoRetry
    /\ req.pc = "join"
    /\ ~WorkerOver
    /\ req' = [Returned(req) EXCEPT !.timed_out = TRUE]
    /\ \E stopped \in BOOLEAN :
        IF stopped
        THEN worker' = [worker EXCEPT !.pc = "killed"] /\ first' = "abandoned"
        ELSE UNCHANGED <<worker, first>>
    /\ UNCHANGED <<delivered, acked, retried, modal, fu, metaVars, env, sigs>>

-----------------------------------------------------------------------------
(* Worker threads.  Every outbound call is one step whose outcome the      *)
(* environment chooses.                                                    *)

\* a step of the worker: its new state, the new log of the invocation, the
\* modal afterwards
WorkerStep(w, q, m) ==
    /\ retried = NoRetry
    /\ worker' = w
    /\ req' = q
    /\ modal' = m
    /\ first' = IF w.pc \in {"done", "raised"} THEN "finished" ELSE first
    /\ UNCHANGED <<delivered, acked, retried, fu, metaVars, env, sigs>>

At(h, pc) == worker.h = h /\ worker.pc = pc

Goto(pc) == [worker EXCEPT !.pc = pc]

\* the thread ends, a views_update of its own having shown the view
Pushed(view) == [worker EXCEPT !.pc = "done", !.updates = Append(@, view.notice)]

Failed(call) == [req EXCEPT !.failed = @ \cup {call}]

Shown(what) == [req EXCEPT !.shown = @ \cup {what}]

\* views.update succeeds only on the view the platform still shows
CanUpdate(view_id) == modal.open /\ modal.id = view_id

Updated(view) == [modal EXCEPT !.view = view]

\* extract_message_text: the stripped text, the content of fetched links
\* appended, and whether an image was downloaded
extract_message_text(message, fetched, downloaded) ==
    [text |-> IF message.urls /\ fetched
              THEN Concat(Strip(message.text), UrlContent)
              ELSE Strip(message.text),
     images |-> message.files /\ downloaded]

\* ---- handle_shortcut_async ----

ShortcutExtract ==
    /\ At("handle_shortcut_async", "extract")
    /\ \E fetched \in (IF req.request.args.message.urls THEN BOOLEAN ELSE {FALSE}),
          downloaded \in (IF req.request.args.message.files THEN BOOLEAN ELSE {FALSE}) :
        LET got == extract_message_text(req.request.args.message, fetched, downloaded) IN
        WorkerStep([worker EXCEPT !.pc = "open", !.text = got.text, !.images = got.images],
                   req, modal)

\* a handler without the test for an empty message
ShortcutOpenModalNoTest ==
    /\ At("handle_shortcut_async", "open")
    /\ \E ok \in BOOLEAN :
        IF ok
        THEN WorkerStep([worker EXCEPT !.view_id = modal.id + 1, !.pc = "explain"],
                        req,
                        [id |-> modal.id + 1, open |-> TRUE, view |-> Notice("loading")])
        ELSE WorkerStep(Goto("done"), Failed("views_open"), modal)

ShortcutOpenModal ==
    /\ At("handle_shortcut_async", "open")
    /\ \E ok \in BOOLEAN :
        IF ok
        THEN WorkerStep([worker EXCEPT
                            !.view_id = modal.id + 1,
                            !.pc = IF worker.text = <<>> /\ ~worker.images
                                   THEN "no_text" ELSE "explain"],
                        req,
                        [id |-> modal.id + 1, open |-> TRUE, view |-> Notice("loading")])
        ELSE WorkerStep(Goto("done"), Failed("views_open"), modal)

ShortcutNoText ==
    /\ At("handle_shortcut_async", "no_text")
    /\ \/ /\ CanUpdate(worker.view_id)
          /\ WorkerStep(Pushed(Notice("no_text")), req, Updated(Notice("no_text")))
       \/ WorkerStep(Goto("raised"), Failed("views_update"), modal)

ShortcutExplain ==
    /\ At("handle_shortcut_async", "explain")
    /\ \/ \E e \in Explanations :
            WorkerStep([worker EXCEPT
                           !.expl = e,
                           !.pc = IF /\ req.request.args.callback_id = "explain_jargon_public"
                                     /\ req.request.args.channel
                                  THEN "post" ELSE "update"],
                       [req EXCEPT !.llm = @ + 1], modal)
       \/ WorkerStep(Goto("error"), Failed("get_explanation"), modal)

ShortcutPost ==
    /\ At("handle_shortcut_async", "post")
    /\ \/ WorkerStep(Goto("posted"), Shown("thread_post"), modal)
       \/ WorkerStep(Goto("update"), Failed("not_in_channel"), modal)
       \/ WorkerStep(Goto("error"), Failed("chat_postMessage"), modal)

\* a confirmation after which the handler goes on to show the explanation
ShortcutPostedFallsThrough ==
    /\ At("handle_shortcut_async", "posted")
    /\ \/ /\ CanUpdate(worker.view_id)
          /\ WorkerStep([Pushed(Notice("posted")) EXCEPT !.pc = "update"], req,
                        Updated(Notice("posted")))
       \/ WorkerStep(Goto("error"), Failed("views_update"), modal)

ShortcutPostedUpdate ==
    /\ At("handle_shortcut_async", "posted")
    /\ \/ /\ CanUpdate(worker.view_id)
          /\ WorkerStep(Pushed(Notice("posted")), req, Updated(Notice("posted")))
       \/ WorkerStep(Goto("error"), Failed("views_update"), modal)

ShortcutUpdate ==
    /\ At("handle_shortcut_async", "update")
    /\ \/ /\ CanUpdate(worker.view_id)
          /\ Accepted(ExplanationView(worker.text, worker.expl, <<>>))
          /\ WorkerStep(Pushed(ExplanationView(worker.text, worker.expl, <<>>)),
                        Shown("explanation"),
                        Updated(ExplanationView(worker.text, worker.expl, <<>>)))
       \/ WorkerStep(Goto("error"), Failed("views_update"), modal)

ShortcutError ==
    /\ At("handle_shortcut_async", "error")
    /\ \/ /\ CanUpdate(worker.view_id)
          /\ WorkerStep(Pushed(Notice("error")), Shown("error_notice"),
                        Updated(Notice("error")))
       \/ WorkerStep(Goto("raised"), Failed("views_update_error"), modal)

\* ---- handle_block_action ----

BlockOpenDm ==
    /\ At("handle_block_action", "entry")
    /\ IF req.request.args.action_id # "chat_about_this" \/ ~req.request.args.user
       THEN WorkerStep(Goto("done"), req, modal)
       ELSE \/ WorkerStep(Goto("post"), req, modal)
            \/ WorkerStep(Goto("done"), Failed("conversations_open"), modal)

BlockPost ==
    /\ At("handle_block_action", "post")
    /\ \/ WorkerStep(Goto(IF req.request.args.view_id # 0 THEN "confirm" ELSE "done"),
                     Shown("dm_prompt"), modal)
       \/ WorkerStep(Goto("done"), Failed("chat_postMessage"), modal)

BlockConfirm ==
    /\ At("handle_block_action", "confirm")
    /\ \/ /\ CanUpdate(req.request.args.view_id)
          /\ WorkerStep(Goto("done"), req, Updated(Notice("dm_sent")))
       \/ WorkerStep(Goto("done"), Failed("views_update"), modal)

\* ---- handle_dm_event ----

DmEntry ==
    /\ At("handle_dm_event", "entry")
    /\ IF req.request.args.text = ""
       THEN WorkerStep(Goto("done"), req, modal)
       ELSE IF req.request.args.text = "link"
       THEN \/ WorkerStep(Goto("explain_linked"), req, modal)
            \/ WorkerStep(Goto("post_nofetch"), req, modal)
            \/ WorkerStep(Goto("post_nofetch"), Failed("fetch_slack_message"), modal)
       ELSE \/ WorkerStep(Goto("chat"), req, modal)
            \/ WorkerStep(Goto("fallback"), Failed("conversations_history"), modal)

DmExplainLinked ==
    /\ At("handle_dm_event", "explain_linked")
    /\ \/ WorkerStep(Goto("post_linked"), [req EXCEPT !.llm = @ + 1], modal)
       \/ WorkerStep(Goto("fallback"), Failed("get_explanation"), modal)

DmChat ==
    /\ At("handle_dm_event", "chat")
    /\ \/ WorkerStep(Goto("post_reply"), [req EXCEPT !.llm = @ + 1], modal)
       \/ WorkerStep(Goto("fallback"), Failed("chat_response"), modal)

DmPost ==
    /\ worker.h = "handle_dm_event"
    /\ worker.pc \in {"post_linked", "post_nofetch", "post_reply"}
    /\ \/ WorkerStep(Goto("done"),
                     Shown(CASE worker.pc = "post_linked" -> "dm_explanation"
                             [] worker.pc = "post_nofetch" -> "dm_could_not_fetch"
                             [] worker.pc = "post_reply" -> "dm_reply"),
                     modal)
       \/ WorkerStep(Goto("fallback"), Failed("chat_postMessage"), modal)

\* an except branch of handle_dm_event that only logs
DmFallbackSilent ==
    /\ At("handle_dm_event", "fallback")
    /\ WorkerStep(Goto("done"), req, modal)

DmFallback ==
    /\ At("handle_dm_event", "fallback")
    /\ \/ WorkerStep(Goto("done"), Shown("dm_fallback"), modal)
       \/ WorkerStep(Goto("done"), Failed("fallback_post"), modal)

\* ---- handle_reaction_event ----

CHAT_TRIGGER_EMOJIS == {"speech_balloon", "eli5"}

ReactionHistory ==
    /\ At("handle_reaction_event", "entry")
    /\ IF req.request.args.reaction \notin CHAT_TRIGGER_EMOJIS \/ ~req.request.args.complete
       THEN WorkerStep(Goto("done"), req, modal)
       ELSE \/ WorkerStep(Goto("open_dm"), req, modal)
            \/ WorkerStep(Goto("done"), req, modal)
            \/ WorkerStep(Goto("done"), Failed("conversations_history"), modal)

ReactionOpenDm ==
    /\ At("handle_reaction_event", "open_dm")
    /\ \/ WorkerStep(Goto("post"), req, modal)
       \/ WorkerStep(Goto("done"), Failed("conversations_open"), modal)

ReactionPost ==
    /\ At("handle_reaction_event", "post")
    /\ \/ WorkerStep(Goto("done"), Shown("dm_prompt"), modal)
       \/ WorkerStep(Goto("done"), Failed("chat_postMessage"), modal)

-----------------------------------------------------------------------------
(* /api/followup (handle_followup_request), one invocation per request.    *)

\* the messages handle_followup_request passes to chat_response
FollowupMessages(body) ==
    << [role |-> "user", content |-> Concat(<<Run("a", 28), Run("n", 1)>>, body.original_text)] >>
    \o body.conversation
    \o << [role |-> "user", content |-> body.question] >>

\* a final view built from the stored conversation and the answer alone
FinalViewNoQuestion(body, answer) ==
    ExplanationView(body.original_text, body.initial_explanation,
                    body.conversation \o
                        << [role |-> "assistant", content |-> answer] >>)

\* the view handle_followup_request pushes once it has the answer
FinalView(body, answer) ==
    ExplanationView(body.original_text, body.initial_explanation,
                    body.conversation \o
                        << [role |-> "user", content |-> body.question],
                           [role |-> "assistant", content |-> answer] >>)

\* a slack_app without its test of the credentials
SlackAppImportsAlways == TRUE

\* the module-level test of slack_app: importing it raises RuntimeError
\* unless both credentials are set and not empty
SlackAppImports ==
    /\ env.SLACK_BOT_TOKEN \notin {"None", ""}
    /\ env.SLACK_SIGNING_SECRET \notin {"None", ""}

\* the authentication test, the reading of the body (complete: it has every
\* key), the import of slack_app and the LLM round trip
FollowupAnswer(i) ==
    /\ retried = NoRetry
    /\ fu[i].pc = "received"
    /\ IF fu[i].body.secret # env.SLACK_SIGNING_SECRET
       THEN fu' = [fu EXCEPT ![i].pc = "forbidden"]
       ELSE IF ~fu[i].body.complete
       THEN fu' = [fu EXCEPT ![i].pc = "raised", ![i].failed = {"KeyError"}]
       ELSE IF ~SlackAppImports
       THEN fu' = [fu EXCEPT ![i].pc = "raised", ![i].failed = {"import slack_app"}]
       ELSE \/ \E a \in Answers :
                 fu' = [fu EXCEPT ![i].pc = "answered", ![i].answer = a, ![i].llm = 1]
            \/ fu' = [fu EXCEPT ![i].pc = "answered", ![i].answer = FallbackAnswer,
                                ![i].failed = {"chat_response"}]
    /\ UNCHANGED <<delivered, acked, first, retried, req, worker, modal, metaVars, env, sigs>>

\* a views_update whose exception leaves the endpoint
FollowupUpdateUnguarded(i) ==
    /\ retried = NoRetry
    /\ fu[i].pc = "answered"
    /\ LET view == FinalView(fu[i].body, fu[i].answer) IN
       \/ /\ CanUpdate(fu[i].body.view_id)
          /\ Accepted(view)
          /\ modal' = Updated(view)
          /\ fu' = [fu EXCEPT ![i].pc = "done", ![i].view = view, ![i].updated = TRUE]
       \/ /\ fu' = [fu EXCEPT ![i].pc = "raised", ![i].view = view,
                              ![i].failed = @ \cup {"views_update"}]
          /\ UNCHANGED modal
    /\ UNCHANGED <<delivered, acked, first, retried, req, worker, metaVars, env, sigs>>

\* views_update with the final view, then return {"ok": true}
FollowupUpdate(i) ==
    /\ retried = NoRetry
    /\ fu[i].pc = "answered"
    /\ LET view == FinalView(fu[i].body, fu[i].answer) IN
       \/ /\ CanUpdate(fu[i].body.view_id)
          /\ Accepted(view)
          /\ modal' = Updated(view)
          /\ fu' = [fu EXCEPT ![i].pc = "done", ![i].view = view, ![i].updated = TRUE]
       \/ /\ fu' = [fu EXCEPT ![i].pc = "done", ![i].view = view,
                              ![i].failed = @ \cup {"views_update"}]
          /\ UNCHANGED modal
    /\ UNCHANGED <<delivered, acked, first, retried, req, worker, metaVars, env, sigs>>

Followup == \E i \in DOMAIN fu : FollowupAnswer(i) \/ FollowupUpdate(i)

-----------------------------------------------------------------------------
(* Spec: the protocol.                                                     *)

\* modals already open when the model starts: the explanation of a short
\* text or of one of 400 non-ASCII characters, with no follow-up yet or with
\* one answered follow-up (which the metadata of the second text has no
\* room for)
InitTexts == { Rep("a", 30), Rep("u", 400) }

InitConvs ==
    { <<>>,
      << [role |-> "user", content |-> Rep("a", 5)],
         [role |-> "assistant", content |-> Rep("a", 600)] >> }

\* the modal when the model starts: none, or an explanation
InitModals ==
    {ClosedModal} \cup
    { [id |-> 1, open |-> TRUE, view |-> ExplanationView(t, e, c)]
        : t \in InitTexts, e \in Explanations, c \in InitConvs }

Init ==
    /\ env = Env
    /\ sigs = {"valid"}
    /\ delivered = 0
    /\ acked = FALSE
    /\ first = "none"
    /\ retried = NoRetry
    /\ req = IdleReq
    /\ worker = IdleWorker
    /\ modal \in InitModals
    /\ fu = <<>>
    /\ marg = NoValue
    /\ mret = NoValue
    /\ mpc = "unused"

Shortcut ==
    \/ ShortcutExtract \/ ShortcutOpenModal \/ ShortcutNoText \/ ShortcutExplain
    \/ ShortcutPost \/ ShortcutPostedUpdate \/ ShortcutUpdate \/ ShortcutError

BlockAction == BlockOpenDm \/ BlockPost \/ BlockConfirm

DmEvent == DmEntry \/ DmExplainLinked \/ DmChat \/ DmPost \/ DmFallback

ReactionEvent == ReactionHistory \/ ReactionOpenDm \/ ReactionPost

\* the invocation for a retried delivery runs to its return before anything
\* else moves: every other action waits for retried = NoRetry
Next ==
    \/ SlackEventsThread \/ SlackEventsDirect \/ SlackEventsViewSubmission
    \/ SlackEventsViewClosed \/ SlackEventsRetry \/ RetryReturns \/ Ack
    \/ JoinReturns \/ JoinTimesOut
    \/ Shortcut \/ BlockAction \/ DmEvent \/ ReactionEvent \/ Followup

Spec == Init /\ [][Next]_vars

\* an invocation of /api/followup that has received its request runs to its
\* end
SpecLive == Spec /\ WF_vars(Followup)

-----------------------------------------------------------------------------
(* SpecFollowup: /api/followup on its own, posted to by any caller, under  *)
(* every configuration of the credentials.                                 *)

MaxPosts == 1

\* the credentials set, empty or not set
Envs ==
    [SLACK_SIGNING_SECRET : {"signing-secret", "", "None"},
     SLACK_BOT_TOKEN : {"xoxb-token", "None"}]

\* JSON bodies a caller can post: the secret right, wrong, empty or absent,
\* the other keys all there or not
PostedBodies ==
    { [secret |-> sec, complete |-> c, view_id |-> 1, question |-> Rep("a", 5),
       original_text |-> Rep("a", 30), conversation |-> <<>>,
       initial_explanation |-> Rep("a", 50)]
        : sec \in {"signing-secret", "wrong", "", "None"}, c \in BOOLEAN }

InitFollowup ==
    /\ env \in Envs
    /\ sigs = {"valid"}
    /\ fu = <<>>
    /\ modal \in { [id |-> 1, open |-> o,
                     view |-> ExplanationView(Rep("a", 30), Rep("a", 50), <<>>)]
                     : o \in BOOLEAN }
    /\ delivered = 0
    /\ acked = FALSE
    /\ first = "none"
    /\ retried = NoRetry
    /\ req = IdleReq
    /\ worker = IdleWorker
    /\ marg = NoValue
    /\ mret = NoValue
    /\ mpc = "unused"

\* a POST to /api/followup arrives
PostFollowup ==
    /\ Len(fu) < MaxPosts
    /\ \E body \in PostedBodies : fu' = Append(fu, NewFollowup(body, NoValue))
    /\ UNCHANGED <<delivered, acked, first, retried, req, worker, modal, metaVars, env, sigs>>

NextFollowup == PostFollowup \/ Followup

SpecFollowup == InitFollowup /\ [][NextFollowup]_vars

-----------------------------------------------------------------------------
(* SpecForged: the protocol when the requests that arrive are not signed   *)
(* by the platform.                                                        *)

InitForged ==
    /\ sigs = Signatures \ {"valid"}
    /\ env = Env
    /\ delivered = 0
    /\ acked = FALSE
    /\ first = "none"
    /\ retried = NoRetry
    /\ req = IdleReq
    /\ worker = IdleWorker
    /\ modal \in { ClosedModal,
                    [id |-> 1, open |-> TRUE,
                     view |-> ExplanationView(Rep("a", 30),
                                              CHOOSE e \in Explanations : TRUE,
                                              << [role |-> "user", content |-> Rep("a", 5)],
                                                 [role |-> "assistant",
                                                  content |-> Rep("a", 600)] >>)] }
    /\ fu = <<>>
    /\ marg = NoValue
    /\ mret = NoValue
    /\ mpc = "unused"

SpecForged == InitForged /\ [][Next]_vars

-----------------------------------------------------------------------------
(* SpecSubmissions: successive view submissions on one modal and their     *)
(* invocations of /api/followup.                                           *)

\* a first question, submitted on the explanation of the short text before
\* the model starts
FirstSubmission ==
    [view |-> ExplanationView(Rep("a", 30), CHOOSE e \in Explanations : TRUE, <<>>),
     view_id |-> 1,
     value |-> Input(Rep("a", 7))]

\* the conversation after one follow-up answered in 1200 characters
AnsweredOnce ==
    << [role |-> "user", content |-> Rep("a", 5)],
       [role |-> "assistant", content |-> Rep("a", 1200)] >>

\* the modal and the invocations of /api/followup when the model starts: an
\* explanation with no follow-up in flight, or the thinking view of the
\* first question with its follow-up in flight
InitSubmissionStates ==
    { [modal |-> m, fu |-> <<>>]
        : m \in (InitModals \ {ClosedModal}) \cup
                { [id |-> 1, open |-> TRUE,
                   view |-> ExplanationView(Rep("a", 30), e, AnsweredOnce)]
                    : e \in Explanations } }
    \cup
    { [modal |-> [id |-> 1, open |-> TRUE,
                  view |-> ThinkingView(parse_view_submission(FirstSubmission), t)],
       fu |-> << NewFollowup(FollowupBody(parse_view_submission(FirstSubmission)),
                             FirstSubmission.view.private_metadata) >>]
        : t \in THINKING_MESSAGES }

InitSubmissions ==
    /\ env = Env
    /\ sigs = {"valid"}
    /\ delivered = 0
    /\ acked = FALSE
    /\ first = "none"
    /\ retried = NoRetry
    /\ req = IdleReq
    /\ worker = IdleWorker
    /\ \E st \in InitSubmissionStates : modal = st.modal /\ fu = st.fu
    /\ marg = NoValue
    /\ mret = NoValue
    /\ mpc = "unused"

NextSubmissions == SlackEventsViewSubmission \/ Ack \/ Followup

SpecSubmissions == InitSubmissions /\ [][NextSubmissions]_vars

-----------------------------------------------------------------------------
(* SpecMeta: the builders applied to arguments drawn from bounded sets.    *)

MaxConv == 2

\* original texts: empty, short, exactly and beyond the 800-character slice,
\* and texts whose characters JSON escapes
MetaTexts ==
    { <<>>, Rep("a", 10), Rep("a", 800), Rep("a", 1000),
      Rep("u", 800), Rep("q", 800), Rep("n", 1000),
      <<Run("a", 600), Run("u", 300)>>, <<Run("a", 400), Run("u", 300), Run("a", 400)>> }

MetaContents == { Rep("a", 10), Rep("a", 1400), Rep("u", 400), <<Run("a", 2000), Run("q", 500)>> }

MetaEntries == [role : {"user", "assistant"}, content : MetaContents]

MetaConvs == UNION { [1..k -> MetaEntries] : k \in 0..MaxConv }

MetaExplanations ==
    { <<>>, Rep("a", 50), <<Run("h", 1), Run("a", 40), Run("n", 2), Run("h", 1), Run("a", 60)>> }

InitMeta ==
    /\ marg \in [original_text : MetaTexts, explanation : MetaExplanations,
                 conversation : MetaConvs]
    /\ mret = NoValue
    /\ mpc = "call"
    /\ delivered = 0
    /\ acked = FALSE
    /\ first = "none"
    /\ retried = NoRetry
    /\ req = IdleReq
    /\ worker = IdleWorker
    /\ modal = ClosedModal
    /\ fu = <<>>
    /\ env = Env
    /\ sigs = {"valid"}

CallBuildModalMetadata ==
    /\ mpc = "call"
    /\ mret' = [private_metadata |-> build_modal_metadata(marg.original_text, marg.conversation)]
    /\ mpc' = "metadata"
    /\ UNCHANGED <<marg, protoVars, env, sigs>>

CallBuildExplanationModalView ==
    /\ mpc = "call"
    /\ mret' = build_explanation_modal_view(marg.original_text, marg.explanation,
                                            marg.conversation)
    /\ mpc' = "view"
    /\ UNCHANGED <<marg, protoVars, env, sigs>>

NextMeta == CallBuildModalMetadata \/ CallBuildExplanationModalView

SpecMeta == InitMeta /\ [][NextMeta]_vars

-----------------------------------------------------------------------------
(* Properties of the retry handling and of the thread discipline of        *)
(* slack_events.                                                           *)

\* the routes whose handling involves an LLM call
LlmRoutes == {"shortcut", "dm", "view_submission"}

\* C1: a delivery that carries a non-empty X-Slack-Retry-Num is answered
\* {"ok": true} at once: slack_events starts no thread, calls no handler and
\* sends no request to /api/followup, whatever the content type and payload,
\* and nothing else of the state moves
C1_RetrySkipped ==
    [][retried' # NoRetry =>
          /\ retried'.num # 0
          /\ retried'.route = "skip_retry"
          /\ retried'.resp = "ok"
          /\ retried'.threads = <<>>
          /\ retried'.called = "none"
          /\ retried'.posts = 0
          /\ UNCHANGED <<req, worker, modal, fu, first>>]_vars

\* a follow-up submission with a question is delivered again
C1_Witness ==
    /\ retried # NoRetry
    /\ req.request.ctype = "form"
    /\ req.request.type = "view_submission"
    /\ parse_view_submission(req.request.args) # NoValue

\* C2: whenever a retried delivery is skipped, the first attempt of that
\* event has been handled to its end
C2_FirstAttemptHandled == retried # NoRetry => first = "finished"

-----------------------------------------------------------------------------
(* Properties of the metadata of the modal.                                *)

\* C3: the string build_modal_metadata returns is shorter than the 3000
\* characters the platform allows for private_metadata, for every
\* original_text and conversation, and so is the metadata of every view
\* build_explanation_modal_view builds
C3_MetadataUnderLimit ==
    mpc \in {"metadata", "view"} => JsonLen(mret.private_metadata) < SlackMetaLimit

\* the conversation a follow-up started from, followed by its question and
\* by the answer it got
Extended(f) ==
    LoadMetadata(f.source).conversation
        \o << [role |-> "user", content |-> f.body.question],
              [role |-> "assistant", content |-> f.answer] >>

\* that conversation and the original text serialize within the cap
Fits(f) ==
    JsonLen(Dumps([original_text |-> Slice(LoadMetadata(f.source).original_text,
                                           OriginalTextMax),
                   conversation |-> Extended(f)])) <= MetaCap

\* C4: the view /api/followup pushes for a submission made on a view whose
\* metadata holds conversation C, with question q and answer a, carries
\* metadata whose conversation is C followed by {user: q} and
\* {assistant: a}, whenever that serialization fits the cap
C4_ConversationRoundTrip ==
    \A i \in DOMAIN fu :
        fu[i].pc = "done" /\ Fits(fu[i]) =>
            Loads(fu[i].view.private_metadata).conversation = Extended(fu[i])

\* a follow-up on a view that already held a conversation was answered by
\* the LLM and pushed, and it fits
C4_Witness ==
    \E i \in DOMAIN fu :
        /\ fu[i].pc = "done"
        /\ fu[i].updated
        /\ fu[i].llm = 1
        /\ LoadMetadata(fu[i].source).conversation # <<>>
        /\ Fits(fu[i])

-----------------------------------------------------------------------------
(* Properties of the acknowledgement and of the follow-up.                 *)

LastShown(view) == view.blocks[Len(view.blocks) - 2].text

\* the view shows a thinking placeholder as its last answer
ShowsThinking(view) ==
    /\ view.callback_id = "eli5_followup"
    /\ LastShown(view) \in THINKING_MESSAGES

C7_EventuallyAnswered ==
    (req.pc = "done" /\ req.route = "view_submission" /\ req.resp = "update")
        ~> ~(modal.open /\ ShowsThinking(modal.view))

-----------------------------------------------------------------------------
(* Properties of the threads.                                              *)

\* C8: slack_events starts at most one thread per request, on every route,
\* and that thread runs the handler of the route
C8_OneThread ==
    /\ Len(req.threads) <= 1
    /\ req.threads # <<>> => worker.h = req.threads[1]
    /\ req.threads = <<>> => worker = IdleWorker

\* a DM is handled by its one thread
C8_Witness ==
    /\ req.route = "dm"
    /\ Len(req.threads) = 1
    /\ worker.pc = "chat"

-----------------------------------------------------------------------------
(* Properties of the handling of failures.                                 *)

\* the handling of the current request is over
HandlingOver == req.pc = "done" /\ worker.pc \in {"idle", "done", "raised"}

\* what the handlers show the user in place of a result that failed
Fallbacks == {"error_notice", "dm_fallback", "dm_could_not_fetch"}

\* C10 as stated: every failure of an outbound call is caught where the call
\* is made and turned into a fallback message the user sees, in every handler
C10_EveryFailureShown ==
    HandlingOver /\ req.failed # {} =>
        /\ worker.pc # "raised"
        /\ req.shown \cap Fallbacks # {}

\* C10: a failure in the thread of a shortcut that the handler survives ends
\* in the error notice in the modal; a failure in the thread of a DM ends in
\* the could-not-fetch or the fallback message, unless posting the fallback
\* fails too; a failure of the LLM in /api/followup ends in the fixed
\* fallback answer; the block action, reaction and view_closed handlers and
\* the POST to /api/followup only log the failure
C10_FailureHandling ==
    /\ (worker.h = "handle_shortcut_async" /\ worker.pc = "done"
            /\ req.failed \cap {"get_explanation", "chat_postMessage", "views_update"} # {})
        => "error_notice" \in req.shown
    /\ (worker.h = "handle_dm_event" /\ worker.pc = "done" /\ req.failed # {})
        => \/ req.shown \cap {"dm_fallback", "dm_could_not_fetch"} # {}
           \/ "fallback_post" \in req.failed
    /\ \A i \in DOMAIN fu :
           "chat_response" \in fu[i].failed =>
               /\ fu[i].answer = FallbackAnswer
               /\ fu[i].pc = "done" => LastShown(fu[i].view) = FallbackAnswer
    /\ (req.route \in {"block_actions", "reaction", "view_closed", "view_submission"}
            /\ req.failed # {})
        => req.shown \cap Fallbacks = {}

\* the LLM failed in the thread of a DM and the fallback message was posted
C10_Witness ==
    /\ worker.h = "handle_dm_event"
    /\ worker.pc = "done"
    /\ "chat_response" \in req.failed
    /\ "dm_fallback" \in req.shown

-----------------------------------------------------------------------------
(* Properties of the authentication of /api/followup.                      *)

\* the invocation got as far as calling the LLM
CalledLlm(f) == f.pc \in {"answered", "done"}

-----------------------------------------------------------------------------
(* Properties of the verification of inbound requests.                     *)

\* C12: slack_events runs one of its own handlers only for a request whose
\* signature verify_slack_signature accepts: a request with a missing, stale
\* or wrong signature starts no thread, has no handler called and causes no
\* outbound call
C12_OnlySigned ==
    req.pc # "idle" /\ ~verify_slack_signature(req.request) =>
        /\ req.threads = <<>>
        /\ req.called \in {"none", "SlackRequestHandler.handle"}
        /\ req.posts = 0
        /\ req.llm = 0
        /\ req.shown = {}
        /\ req.failed = {}

-----------------------------------------------------------------------------
(* Properties of successive follow-ups.                                    *)

\* C13: no list of messages /api/followup passes to the LLM holds a thinking
\* placeholder as an assistant entry, whatever the sequence of submissions
\* on the modal, a second question submitted under the thinking view of the
\* first included
C13_NoPlaceholderToLlm ==
    \A i \in DOMAIN fu :
        CalledLlm(fu[i]) =>
            \A k \in DOMAIN FollowupMessages(fu[i].body) :
                ~ /\ FollowupMessages(fu[i].body)[k].role = "assistant"
                  /\ FollowupMessages(fu[i].body)[k].content \in THINKING_MESSAGES

-----------------------------------------------------------------------------
(* Two follow-ups on one modal.                                            *)

\* the conversation the modal carries
ModalConversation == LoadMetadata(modal.view.private_metadata).conversation

\* the modal carries the question of invocation f followed by its answer
PairedInModal(f) ==
    \E k \in 1..(Len(ModalConversation) - 1) :
        /\ ModalConversation[k] = [role |-> "user", content |-> f.body.question]
        /\ ModalConversation[k + 1] = [role |-> "assistant", content |-> f.answer]

\* C14: when two follow-up questions were submitted on the same modal and
\* both invocations of /api/followup have completed with their views_update
\* done, the modal carries both questions, each followed by its own answer,
\* whichever invocation updated last
C14_BothPaired ==
    (/\ Len(fu) = 2
     /\ \A i \in DOMAIN fu : fu[i].pc = "done" /\ fu[i].updated
     /\ fu[1].body.view_id = fu[2].body.view_id
     /\ modal.open)
        => \A i \in DOMAIN fu : PairedInModal(fu[i])

-----------------------------------------------------------------------------
(* Properties of the truncation of build_modal_metadata.                   *)

\* the data build_modal_metadata returned, read back
Stored == Loads(mret.private_metadata)

\* the suffixes of the conversation build_modal_metadata was given
Suffixes == { SubSeq(marg.conversation, k, Len(marg.conversation))
                : k \in 1..(Len(marg.conversation) + 1) }

\* those whose serialization, with the stored original text, is within the cap
FittingSuffixes ==
    { c \in Suffixes :
        JsonLen(Dumps([original_text |-> Slice(marg.original_text, OriginalTextMax),
                       conversation |-> c])) <= MetaCap }

\* C15: build_modal_metadata drops conversation entries oldest first: the
\* conversation it stores is a suffix of the one it was given, the longest
\* whose serialization is at most 2900 characters, or the empty list if
\* none is, and the original text it stores is the first 800 characters of
\* its input
C15_LongestFittingSuffix ==
    mpc = "metadata" =>
        /\ Stored.conversation \in Suffixes
        /\ IF FittingSuffixes = {}
           THEN Stored.conversation = <<>>
           ELSE /\ Stored.conversation \in FittingSuffixes
                /\ \A c \in FittingSuffixes : Len(c) <= Len(Stored.conversation)
        /\ Stored.original_text = Slice(marg.original_text, OriginalTextMax)
        /\ StrLen(Stored.original_text) =
              IF StrLen(marg.original_text) < OriginalTextMax
              THEN StrLen(marg.original_text) ELSE OriginalTextMax

\* build_modal_metadata cut an original text of more than 800 characters
\* and dropped the older of two entries, keeping the newer
C15_Witness ==
    /\ mpc = "metadata"
    /\ StrLen(marg.original_text) > OriginalTextMax
    /\ Len(marg.conversation) = 2
    /\ marg.conversation[1] # marg.conversation[2]
    /\ Stored.conversation = << marg.conversation[2] >>

-----------------------------------------------------------------------------
(* The shape of the stored conversation.                                   *)

\* complete question/answer pairs: user, assistant, user, assistant, ...
Alternating(conversation) ==
    /\ Len(conversation) % 2 = 0
    /\ \A k \in DOMAIN conversation :
           conversation[k].role = IF k % 2 = 1 THEN "user" ELSE "assistant"

\* C16: the conversation stored in the private_metadata of the modal is
\* made of complete question/answer pairs, roles alternating from a user
\* entry to a closing assistant entry, after any follow-ups, those in which
\* build_modal_metadata truncated the conversation included
C16_CompletePairs ==
    modal.open /\ modal.view.callback_id = "eli5_followup"
        => Alternating(ModalConversation)

-----------------------------------------------------------------------------
(* The blocks of a view against the conversation it stores.                *)

\* the blocks a view shows between its explanation and its closing divider
\* and input block
ShownConversationBlocks(view, explanation) ==
    SubSeq(view.blocks, 3 + Len(split_explanation_blocks(explanation)),
           Len(view.blocks) - 2)

\* C17: in every view build_explanation_modal_view returns, the follow-up
\* questions and answers rendered as blocks are exactly the conversation
\* entries stored in the private_metadata of that view, in the same order
C17_BlocksMatchMetadata ==
    mpc = "view" =>
        ShownConversationBlocks(mret, marg.explanation)
            = ConversationBlocks(Stored.conversation)

-----------------------------------------------------------------------------
(* Properties of handle_shortcut_async.                                    *)

\* the message of the shortcut has a link extract_message_text fetches or a
\* file it downloads
SlowExtraction ==
    \/ req.request.args.message.urls
    \/ req.request.args.message.files

\* C18: on a message shortcut the loading modal is opened before any slow
\* extraction work: handle_shortcut_async never stands before its call of
\* open_loading_modal with the link fetches and image downloads of
\* extract_message_text already performed
C18_OpenBeforeExtraction ==
    ~ (At("handle_shortcut_async", "open") /\ SlowExtraction)

\* handle_shortcut_async has returned or raised
ShortcutOver ==
    /\ req.route = "shortcut"
    /\ worker.h = "handle_shortcut_async"
    /\ worker.pc \in {"done", "raised"}

\* the views a shortcut ends on
FinalNotices == {"no_text", "explanation", "posted", "error"}

\* C19: when open_loading_modal succeeded and no views_update failed,
\* handle_shortcut_async ends having updated the modal exactly once, to the
\* no-text notice, the explanation view, the posted confirmation or the
\* error notice, and its modal no longer shows the loading view, whatever
\* the LLM call and chat_postMessage did
C19_UpdatedExactlyOnce ==
    (/\ ShortcutOver
     /\ worker.view_id # 0
     /\ req.failed \cap {"views_update", "views_update_error"} = {})
        => /\ Len(worker.updates) = 1
           /\ worker.updates[1] \in FinalNotices
           /\ modal.id = worker.view_id => modal.view.notice # "loading"

\* a public shortcut whose chat_postMessage failed ended on the error
\* notice, its only update
C19_Witness ==
    /\ ShortcutOver
    /\ worker.view_id # 0
    /\ req.failed = {"chat_postMessage"}
    /\ req.llm = 1
    /\ worker.updates = <<"error">>
    /\ modal.view = Notice("error")

\* extract_message_text found neither text nor images
NothingToExplain == worker.text = <<>> /\ ~worker.images

\* handle_shortcut_async is past extract_message_text
ShortcutExtracted ==
    /\ req.route = "shortcut"
    /\ worker.h = "handle_shortcut_async"
    /\ worker.pc # "extract"

\* C20 as stated: when opening the loading modal fails the handler returns
\* without an LLM call, a channel post or a views_update, and when the
\* message has neither text nor images the modal is updated with the
\* no-text notice and the LLM is never called
C20_NoTextNoticeShown ==
    /\ ShortcutOver /\ "views_open" \in req.failed =>
           /\ req.llm = 0
           /\ req.shown = {}
           /\ req.failed = {"views_open"}
           /\ worker.updates = <<>>
    /\ ShortcutOver /\ worker.view_id # 0 /\ NothingToExplain =>
           /\ req.llm = 0
           /\ worker.updates = <<"no_text">>

\* C20: when opening the loading modal fails the handler returns without
\* an LLM call, a channel post or a views_update; when the modal was opened
\* and the message has neither text nor images the LLM is never called and
\* the only views_update is that of the no-text notice, which shows it
\* when the call succeeds and which, raising, ends the handler with the
\* modal not updated
C20_OpenFailureAndNoText ==
    /\ ShortcutOver /\ "views_open" \in req.failed =>
           /\ req.llm = 0
           /\ req.shown = {}
           /\ req.failed = {"views_open"}
           /\ worker.updates = <<>>
    /\ ShortcutExtracted /\ NothingToExplain =>
           /\ req.llm = 0
           /\ req.shown = {}
           /\ req.failed \subseteq {"views_open", "views_update"}
    /\ ShortcutOver /\ worker.view_id # 0 /\ NothingToExplain =>
           IF "views_update" \in req.failed
           THEN worker.updates = <<>> /\ worker.pc = "raised"
           ELSE worker.updates = <<"no_text">>

\* a shortcut on a message with a file and no text, whose download failed,
\* ended with the no-text notice
C20_Witness ==
    /\ ShortcutOver
    /\ worker.view_id # 0
    /\ NothingToExplain
    /\ req.request.args.message.files
    /\ worker.updates = <<"no_text">>
    /\ modal.view = Notice("no_text")

-----------------------------------------------------------------------------
(* The public shortcut.                                                    *)

\* the shortcut that posts to the channel: explain_jargon_public with a
\* channel id, on a message with something to explain, its modal opened
PublicShortcutOver ==
    /\ ShortcutOver
    /\ req.request.args.callback_id = "explain_jargon_public"
    /\ req.request.args.channel
    /\ worker.view_id # 0

\* no views_update of the handler failed but one whose view the platform
\* cannot take
UpdatesTaken ==
    /\ "views_update_error" \notin req.failed
    /\ "views_update" \in req.failed =>
           /\ "thread_post" \notin req.shown
           /\ ~Accepted(ExplanationView(worker.text, worker.expl, <<>>))

\* C21: for the public shortcut, a successful post in the thread of the
\* message ends with the posted confirmation in the modal; a post that
\* fails with not_in_channel ends with the explanation in the modal and no
\* error notice; any other failure of the post ends with the error notice
C21_PublicShortcut ==
    PublicShortcutOver /\ UpdatesTaken =>
        /\ "thread_post" \in req.shown => worker.updates = <<"posted">>
        /\ "not_in_channel" \in req.failed =>
               /\ worker.updates = <<"explanation">>
               /\ "error_notice" \notin req.shown
        /\ "chat_postMessage" \in req.failed => worker.updates = <<"error">>

-----------------------------------------------------------------------------
(* The validation error of a view submission.                              *)

\* no question was entered: the input is missing, empty or only whitespace
NoQuestion(value) ==
    \/ ~value.given
    \/ \A k \in DOMAIN value.text : IsSpace(value.text[k].ch)

\* C22: slack_events answers a view_submission of the follow-up modal with
\* the validation error on followup_block exactly when no question was
\* entered, and then posts nothing to /api/followup and leaves the modal
\* as it was
C22_ValidationError ==
    [][(delivered' # delivered /\ req'.route = "view_submission") =>
          /\ req'.resp = "errors" <=> NoQuestion(req'.request.args.value)
          /\ req'.resp = "update" <=> ~NoQuestion(req'.request.args.value)
          /\ NoQuestion(req'.request.args.value) =>
                 /\ req'.posts = 0
                 /\ fu' = fu
                 /\ modal' = modal]_vars

\* a submission whose input held only whitespace was answered with the
\* validation error
C22_Witness ==
    /\ req.pc = "done"
    /\ req.route = "view_submission"
    /\ req.request.args.value = Input(Rep("s", 2))
    /\ req.resp = "errors"
    /\ fu = <<>>

-----------------------------------------------------------------------------
(* Failures inside /api/followup.                                          *)

\* the view ends, above its input block, with the question of invocation f
\* followed by the fallback answer
ShowsFallbackPair(f) ==
    /\ Len(f.view.blocks) >= 5
    /\ f.view.blocks[Len(f.view.blocks) - 3] = Section(Concat(YouAsked, f.body.question))
    /\ f.view.blocks[Len(f.view.blocks) - 2] = Section(FallbackAnswer)

\* C23: in /api/followup a raising LLM call makes the answer the fixed
\* fallback string, the view pushed to the modal pairs the question with
\* that answer, and the endpoint returns {"ok": true}; when views_update
\* raises the endpoint returns {"ok": true} all the same: no invocation
\* ends on an exception
C23_FollowupFailures ==
    /\ [](\A i \in DOMAIN fu :
             /\ fu[i].pc # "raised"
             /\ "chat_response" \in fu[i].failed =>
                    /\ fu[i].pc \in {"answered", "done"}
                    /\ fu[i].answer = FallbackAnswer
                    /\ fu[i].pc = "done" => ShowsFallbackPair(fu[i])
             /\ "views_update" \in fu[i].failed =>
                    fu[i].pc = "done" /\ ~fu[i].updated)
    /\ [][\A i \in DOMAIN fu :
             (/\ i \in DOMAIN fu'
              /\ fu[i].pc = "answered"
              /\ fu'[i].pc = "done"
              /\ fu'[i].updated)
                 => modal'.view = fu'[i].view]_vars

\* a follow-up whose LLM call raised has updated the modal with the
\* question and the fallback answer and returned
C23_Witness ==
    \E i \in DOMAIN fu :
        /\ fu[i].pc = "done"
        /\ fu[i].failed = {"chat_response"}
        /\ fu[i].updated
        /\ ShowsFallbackPair(fu[i])
        /\ modal.view = fu[i].view

=============================================================================
